---------------------------- MODULE Spec2Model ----------------------------
(***************************************************************************)
(* Model of the Cerebro command-and-file gateway (src-tauri/src/lib.rs):   *)
(* path containment, the file write service, the process execution         *)
(* gateway and the metrics log.                                            *)
(*                                                                         *)
(* Representation.  A Rust string holding a path is a record               *)
(* [abs, segs]: abs says the string starts with '/', segs are the pieces   *)
(* between '/' characters ("" for the empty piece of "a//b" or "a/").      *)
(* A Path/PathBuf value is the sequence of its components, as compared by  *)
(* Path's Eq: "/" is Component::RootDir, "." is CurDir, ".." is ParentDir  *)
(* and any other string is Normal(name).                                   *)
(***************************************************************************)
EXTENDS Naturals, Integers, Sequences, FiniteSets, TLC

VARIABLES
    cpInput,    \* Containment engine: the Option<&str> handed to build_path
    cpResult,   \* Containment engine: what build_path returned for cpInput
    cpRelative, \* Containment engine: what relative_from_root returned for cpResult
    cpAgain,    \* Containment engine: what build_path returned for cpRelative
    cdData,     \* Codec: the bytes handed to encode_base64, if any
    cdText,     \* Codec: the text encode_base64 returned, or a caller's text
    cdDecoded,  \* Codec: what decode_base64 returned for cdText
    tree,       \* the host file system: path |-> directory or file with its bytes
    rpc,        \* the gateway call in flight: idle, a request, or its response
    log,        \* the metrics file: absent, or its content
    ap,         \* each appendMetric caller: where it is in mcp_metrics_append
    calls,      \* how many appendMetric calls have started
    appended,   \* the entries whose appendMetric call has returned, in order
    tl          \* the tailMetrics call just answered, if any

containVars == <<cpInput, cpResult, cpRelative, cpAgain>>
codecVars == <<cdData, cdText, cdDecoded>>
gatewayVars == <<tree, rpc>>
metricsVars == <<log, ap, calls, appended, tl>>

vars == <<cpInput, cpResult, cpRelative, cpAgain, cdData, cdText, cdDecoded, tree, rpc, log, ap, calls, appended, tl>>

----------------------------------------------------------------------------
(* Option and Result values *)

None == [some |-> FALSE]
Some(v) == [some |-> TRUE, val |-> v]

Ok(v) == [ok |-> TRUE, val |-> v]
Err(e) == [ok |-> FALSE, err |-> e]

\* Sequences over S of length at most n
SeqUpTo(S, n) == UNION {[1..k -> S] : k \in 0..n}

IsPrefixOf(p, s) == Len(p) <= Len(s) /\ SubSeq(s, 1, Len(p)) = p

----------------------------------------------------------------------------
(* Bounds *)

\* Longest caller path, in '/'-separated pieces, fed to the containment engine
MaxSegs == 3

\* Concurrent appendMetric callers, and the appendMetric calls they make in all
NumAppenders == 2
MaxAppends == 3

\* appendMetric calls made by the single caller of the sequential specification
MaxSeqAppends == 22

\* Largest explicit limit handed to tailMetrics
MaxLimit == 3

\* Longest byte sequence handed to the codec's encoder
MaxBytes == 5

\* Longest caller text handed to the codec's decoder
MaxChars == 5

----------------------------------------------------------------------------
(* Text.  A Rust String is the sequence of its characters, each a          *)
(* one-character string; the model's strings are ASCII.                    *)

Uppercase == <<"A", "B", "C", "D", "E", "F", "G", "H", "I", "J", "K", "L", "M",
               "N", "O", "P", "Q", "R", "S", "T", "U", "V", "W", "X", "Y", "Z">>
Lowercase == <<"a", "b", "c", "d", "e", "f", "g", "h", "i", "j", "k", "l", "m",
               "n", "o", "p", "q", "r", "s", "t", "u", "v", "w", "x", "y", "z">>
Digits == <<"0", "1", "2", "3", "4", "5", "6", "7", "8", "9">>

IndexIn(seq, x) == CHOOSE i \in 1..Len(seq) : seq[i] = x
OccursIn(seq, x) == \E i \in 1..Len(seq) : seq[i] = x

\* char::to_ascii_lowercase
to_ascii_lowercase(ch) ==
    IF OccursIn(Uppercase, ch) THEN Lowercase[IndexIn(Uppercase, ch)] ELSE ch

\* str::eq_ignore_ascii_case
eq_ignore_ascii_case(a, b) ==
    /\ Len(a) = Len(b)
    /\ \A i \in 1..Len(a) : to_ascii_lowercase(a[i]) = to_ascii_lowercase(b[i])

\* str::to_lowercase, on ASCII text
to_lowercase(str) == [i \in 1..Len(str) |-> to_ascii_lowercase(str[i])]

\* str::contains(char)
contains(str, ch) == OccursIn(str, ch)

\* char::is_whitespace
is_whitespace(ch) == ch \in {" ", "\n", "\t"}

\* The byte of an ASCII character
AsciiByte(ch) ==
    IF OccursIn(Uppercase, ch) THEN 64 + IndexIn(Uppercase, ch)
    ELSE IF OccursIn(Lowercase, ch) THEN 96 + IndexIn(Lowercase, ch)
    ELSE IF OccursIn(Digits, ch) THEN 47 + IndexIn(Digits, ch)
    ELSE CASE ch = "\t" -> 9
           [] ch = "\n" -> 10
           [] ch = " " -> 32
           [] ch = "!" -> 33
           [] ch = "&" -> 38
           [] ch = "+" -> 43
           [] ch = "-" -> 45
           [] ch = "." -> 46
           [] ch = "/" -> 47
           [] ch = ";" -> 59
           [] ch = "=" -> 61
           [] ch = "|" -> 124

\* str::as_bytes
as_bytes(str) == [i \in 1..Len(str) |-> AsciiByte(str[i])]

RECURSIVE SelectNonWhitespace(_)
SelectNonWhitespace(str) ==
    IF str = <<>> THEN <<>>
    ELSE IF is_whitespace(Head(str)) THEN SelectNonWhitespace(Tail(str))
    ELSE <<Head(str)>> \o SelectNonWhitespace(Tail(str))

----------------------------------------------------------------------------
(* Binary-text codec: decoding *)

EncodingError == "EncodingError"

decode_base64_char(byte) ==
    IF byte >= 65 /\ byte <= 90 THEN Some(byte - 65)
    ELSE IF byte >= 97 /\ byte <= 122 THEN Some(byte - 97 + 26)
    ELSE IF byte >= 48 /\ byte <= 57 THEN Some(byte - 48 + 52)
    ELSE IF byte = 43 THEN Some(62)
    ELSE IF byte = 47 THEN Some(63)
    ELSE None

\* One 4-byte chunk of decode_base64: Err on a byte outside the alphabet,
\* else the 1 to 3 bytes the chunk yields
DecodeChunk(chunk) ==
    LET IsPad(i) == chunk[i] = 61
        sextet(i) == IF IsPad(i) THEN Some(0) ELSE decode_base64_char(chunk[i])
        padding == Cardinality({i \in 1..Len(chunk) : IsPad(i)})
    IN IF \E i \in 1..Len(chunk) : ~sextet(i).some
       THEN Err(EncodingError)
       ELSE LET buffer == [i \in 1..4 |-> IF i <= Len(chunk) THEN sextet(i).val ELSE 0]
                triple == buffer[1] * 262144 + buffer[2] * 4096 + buffer[3] * 64 + buffer[4]
            IN Ok(<<(triple \div 65536) % 256>>
                  \o (IF padding < 2 THEN <<(triple \div 256) % 256>> ELSE <<>>)
                  \o (IF padding < 1 THEN <<triple % 256>> ELSE <<>>))

RECURSIVE DecodeChunks(_)
DecodeChunks(bytes) ==
    IF bytes = <<>> THEN Ok(<<>>)
    ELSE LET n == IF Len(bytes) < 4 THEN Len(bytes) ELSE 4
             first == DecodeChunk(SubSeq(bytes, 1, n))
         IN IF ~first.ok THEN first
            ELSE LET rest == DecodeChunks(SubSeq(bytes, n + 1, Len(bytes))) IN
                 IF rest.ok THEN Ok(first.val \o rest.val) ELSE rest

decode_base64(input) ==
    LET cleaned == SelectNonWhitespace(input) IN
    IF Len(cleaned) % 4 # 0 THEN Err(EncodingError)
    ELSE DecodeChunks(as_bytes(cleaned))

----------------------------------------------------------------------------
(* Binary-text codec: encoding *)

BASE64_TABLE == Uppercase \o Lowercase \o Digits \o <<"+", "/">>

\* Faulty variant of PadChar: the table character of the zero bits is pushed
PadChar_zeroBits == "A"

\* The '=' that encode_base64 pushes for a missing source byte
PadChar == "="

\* One chunk of data.chunks(3) in encode_base64: its four characters
EncodeChunk(chunk) ==
    LET b0 == chunk[1]
        b1 == IF Len(chunk) > 1 THEN chunk[2] ELSE 0
        b2 == IF Len(chunk) > 2 THEN chunk[3] ELSE 0
        triple == b0 * 65536 + b1 * 256 + b2
        idx0 == (triple \div 262144) % 64
        idx1 == (triple \div 4096) % 64
        idx2 == (triple \div 64) % 64
        idx3 == triple % 64
    IN <<BASE64_TABLE[idx0 + 1], BASE64_TABLE[idx1 + 1]>>
       \o (IF Len(chunk) > 1 THEN <<BASE64_TABLE[idx2 + 1]>> ELSE <<PadChar>>)
       \o (IF Len(chunk) > 2 THEN <<BASE64_TABLE[idx3 + 1]>> ELSE <<PadChar>>)

RECURSIVE EncodeChunks(_)
EncodeChunks(data) ==
    IF data = <<>> THEN <<>>
    ELSE LET n == IF Len(data) < 3 THEN Len(data) ELSE 3 IN
         EncodeChunk(SubSeq(data, 1, n)) \o EncodeChunks(SubSeq(data, n + 1, Len(data)))

encode_base64(data) ==
    IF data = <<>> THEN <<>> ELSE EncodeChunks(data)

----------------------------------------------------------------------------
(* Paths *)

\* The value of $HOME in the modelled environment: "/home/user"
HomeDir == <<"/", "home", "user">>

SAFE_ORBIT_RELATIVE == [abs |-> FALSE, segs |-> <<"Documentos", "CerebroProjects">>]

\* Path::components on Unix: RootDir when the string starts with '/', empty
\* pieces dropped, "." dropped except as the first piece of a relative path.
RECURSIVE BodyComponents(_)
BodyComponents(segs) ==
    IF segs = <<>> THEN <<>>
    ELSE IF Head(segs) \in {"", "."} THEN BodyComponents(Tail(segs))
    ELSE <<Head(segs)>> \o BodyComponents(Tail(segs))

Components(p) ==
    IF p.abs THEN <<"/">> \o BodyComponents(p.segs)
    ELSE IF p.segs # <<>> /\ Head(p.segs) = "."
         THEN <<".">> \o BodyComponents(Tail(p.segs))
         ELSE BodyComponents(p.segs)

\* Path::is_absolute on Unix: the path has a root
is_absolute(p) == p.abs

\* PathBuf::join with a relative path: the components are pushed
join(base, rel) == base \o Components(rel)

\* Path::starts_with: component-wise prefix
starts_with(path, base) == IsPrefixOf(base, path)

\* Path::strip_prefix: the remaining components, as a relative path string
strip_prefix(p, base) ==
    LET cs == Components(p) IN
    IF IsPrefixOf(base, cs)
    THEN Ok([abs |-> FALSE, segs |-> SubSeq(cs, Len(base) + 1, Len(cs))])
    ELSE Err("StripPrefixError")

\* Faulty variant of push: the pushed part replaces the path, as push does for an
\* absolute part
push_replacing(resolved, part) == <<"/", part>>

\* PathBuf::push of a Normal component, PathBuf::pop
push(resolved, part) == Append(resolved, part)
pop(resolved) == SubSeq(resolved, 1, Len(resolved) - 1)

\* The safe root that safe_root computes: home.join(SAFE_ORBIT_RELATIVE)
SafeRootPath == join(HomeDir, SAFE_ORBIT_RELATIVE)

\* Error messages of the containment engine, by the spec's taxonomy:
\* "Ruta fuera de la orbita segura." is OutOfOrbit, "Ruta invalida" is Invalid.
OutOfOrbit == "OutOfOrbit"
Invalid == "Invalid"

\* Faulty variant of ParentDirArm: a ".." at the root is clamped to the root
ParentDirArm_clamping(root, resolved) ==
    IF resolved = root THEN Ok(root) ELSE Ok(pop(resolved))

\* The ParentDir arm of sanitize_relative_path's match
ParentDirArm(root, resolved) ==
    IF resolved = root THEN Err(OutOfOrbit) ELSE Ok(pop(resolved))

\* The component loop of sanitize_relative_path and its final starts_with check
RECURSIVE walk_components(_, _, _)
walk_components(root, resolved, comps) ==
    IF comps = <<>>
    THEN IF ~starts_with(resolved, root) THEN Err(OutOfOrbit) ELSE Ok(resolved)
    ELSE LET component == Head(comps) IN
         CASE component = "." -> walk_components(root, resolved, Tail(comps))
           [] component = ".." ->
                LET popped == ParentDirArm(root, resolved) IN
                IF popped.ok THEN walk_components(root, popped.val, Tail(comps))
                ELSE popped
           [] component = "/" -> Err(Invalid)
           [] OTHER -> walk_components(root, push(resolved, component), Tail(comps))

\* Faulty variant of AbsoluteBranch: an absolute path outside the root is re-read as
\* a path relative to the root
AbsoluteBranch_rebasing(root, path) ==
    LET stripped == strip_prefix(path, root) IN
    IF stripped.ok THEN stripped ELSE Ok([abs |-> FALSE, segs |-> path.segs])

\* The absolute branch of sanitize_relative_path: the path to recurse on
AbsoluteBranch(root, path) ==
    LET stripped == strip_prefix(path, root) IN
    IF stripped.ok THEN stripped ELSE Err(OutOfOrbit)

sanitize_relative_path(root, path) ==
    IF is_absolute(path)
    THEN LET stripped == AbsoluteBranch(root, path) IN
         IF stripped.ok
         THEN \* the recursive call: stripped.val is relative
              walk_components(root, root, Components(stripped.val))
         ELSE stripped
    ELSE walk_components(root, root, Components(path))

build_path(root, input) ==
    IF input.some THEN sanitize_relative_path(root, input.val) ELSE Ok(root)

\* The name "a\b": a file name holding a backslash, legal on Unix
BackslashName == "a\\b"

\* str::replace('\\', "/") on one component name, as '/'-separated pieces
ReplaceBackslash(name) == IF name = BackslashName THEN <<"a", "b">> ELSE <<name>>

RECURSIVE ReplaceBackslashes(_)
ReplaceBackslashes(names) ==
    IF names = <<>> THEN <<>>
    ELSE ReplaceBackslash(Head(names)) \o ReplaceBackslashes(Tail(names))

\* relative_from_root: the root-relative string of a path
relative_from_root(root, target) ==
    LET relative == strip_prefix([abs |-> TRUE, segs |-> Tail(target)], root) IN
    IF ~relative.ok THEN Err(OutOfOrbit)
    ELSE IF relative.val.segs = <<>> THEN Ok([abs |-> FALSE, segs |-> <<".">>])
    ELSE Ok([abs |-> FALSE, segs |-> ReplaceBackslashes(relative.val.segs)])

----------------------------------------------------------------------------
(* The host file system *)

IOFailure == "IOFailure"

Dir == [kind |-> "dir"]
File(data) == [kind |-> "file", data |-> data]

\* Path::exists, Path::is_dir, Path::is_file
exists(t, path) == path \in DOMAIN t
is_dir(t, path) == exists(t, path) /\ t[path].kind = "dir"
is_file(t, path) == exists(t, path) /\ t[path].kind = "file"

\* Path::parent of a path below "/"
parent(path) == pop(path)

WithNode(t, path, node) ==
    [q \in DOMAIN t \cup {path} |-> IF q = path THEN node ELSE t[q]]

\* fs::create_dir_all: creates the missing ancestors, then the directory;
\* fails when an ancestor, or the path itself, is a file
RECURSIVE create_dir_all(_, _)
create_dir_all(t, path) ==
    IF is_dir(t, path) THEN Ok(t)
    ELSE IF exists(t, path) THEN Err(IOFailure)
    ELSE LET above == create_dir_all(t, parent(path)) IN
         IF above.ok THEN Ok(WithNode(above.val, path, Dir)) ELSE above

\* fs::write: creates or truncates the file and writes the bytes; fails when
\* the target is a directory or its parent is not one
fs_write(t, target, bytes) ==
    IF is_dir(t, parent(target)) /\ ~is_dir(t, target)
    THEN Ok(WithNode(t, target, File(bytes)))
    ELSE Err(IOFailure)

\* Faulty variant of safe_root: the root is returned without being created
safe_root_uncreated(t) ==
    Ok([root |-> join(HomeDir, SAFE_ORBIT_RELATIVE), tree |-> t])

\* safe_root: the root path and the file system with the root created if absent
safe_root(t) ==
    LET root == join(HomeDir, SAFE_ORBIT_RELATIVE) IN
    IF ~exists(t, root)
    THEN LET made == create_dir_all(t, root) IN
         IF made.ok THEN Ok([root |-> root, tree |-> made.val]) ELSE made
    ELSE Ok([root |-> root, tree |-> t])

\* The file system before the gateway first runs: the home directory exists,
\* the safe root is created lazily
TreeInit ==
    [q \in {<<"/">>, <<"/", "home">>, <<"/", "home", "user">>} |-> Dir]

----------------------------------------------------------------------------
(* File access service: mcp_files_write *)

AlreadyExists == "AlreadyExists"    \* "El archivo ya existe y overwrite=false."

unwrap_or(option, default) == IF option.some THEN option.val ELSE default

UTF8 == <<"u", "t", "f", "8">>
BASE64 == <<"b", "a", "s", "e", "6", "4">>

\* Faulty variant of OverwriteRefused: an omitted overwrite is read as false
OverwriteRefused_defaultFalse(existed, overwrite) ==
    existed /\ ~unwrap_or(overwrite, FALSE)

\* existed && !overwrite.unwrap_or(true)
OverwriteRefused(existed, overwrite) ==
    existed /\ ~unwrap_or(overwrite, TRUE)

\* The bytes mcp_files_write is to write: the decoded payload, or the text
WritePayload(content, encoding) ==
    LET encoding_pref == unwrap_or(encoding, UTF8) IN
    IF eq_ignore_ascii_case(encoding_pref, BASE64)
    THEN decode_base64(content)
    ELSE Ok(as_bytes(content))

\* mcp_files_write on file system t: the file system it leaves and its result
mcp_files_write(t, path, content, encoding, overwrite) ==
    LET rooted == safe_root(t) IN
    IF ~rooted.ok THEN [tree |-> t, result |-> rooted]
    ELSE
    LET root == rooted.val.root
        t1 == rooted.val.tree
        built == build_path(root, Some(path))
    IN
    IF ~built.ok THEN [tree |-> t1, result |-> built]
    ELSE
    LET target == built.val
        made == IF ~exists(t1, parent(target))
                THEN create_dir_all(t1, parent(target))
                ELSE Ok(t1)
    IN
    IF ~made.ok THEN [tree |-> t1, result |-> made]
    ELSE
    LET t2 == made.val
        existed == exists(t2, target)
    IN
    IF OverwriteRefused(existed, overwrite)
    THEN [tree |-> t2, result |-> Err(AlreadyExists)]
    ELSE
    LET payload == WritePayload(content, encoding) IN
    IF ~payload.ok THEN [tree |-> t2, result |-> payload]
    ELSE
    LET written == fs_write(t2, target, payload.val) IN
    IF ~written.ok THEN [tree |-> t2, result |-> written]
    ELSE
    LET relative == relative_from_root(root, target) IN
    IF ~relative.ok THEN [tree |-> written.val, result |-> relative]
    ELSE [tree |-> written.val,
          result |-> Ok([path |-> relative.val,
                         bytes |-> Len(payload.val),
                         created |-> ~existed])]

----------------------------------------------------------------------------
(* Process execution gateway *)

BLOCKED_GIT_SUBCOMMANDS == <<<<"p", "u", "s", "h">>, <<"p", "u", "l", "l">>, <<"f", "e", "t", "c", "h">>, <<"r", "e", "m", "o", "t", "e">>, <<"c", "l", "o", "n", "e">>>>

ALLOWED_SHELL_COMMANDS ==
    <<<<"l", "s">>,
      <<"c", "a", "t">>,
      <<"t", "a", "i", "l">>,
      <<"p", "w", "d">>,
      <<"n", "p", "m">>,
      <<"p", "n", "p", "m">>,
      <<"y", "a", "r", "n">>,
      <<"n", "p", "x">>,
      <<"n", "o", "d", "e">>,
      <<"d", "e", "n", "o">>,
      <<"c", "a", "r", "g", "o">>,
      <<"g", "o">>,
      <<"p", "y", "t", "h", "o", "n">>,
      <<"p", "i", "p">>,
      <<"p", "i", "p", "3">>,
      <<"j", "u", "s", "t">>,
      <<"m", "a", "k", "e">>,
      <<"r", "g">>>>

CommandNotAllowed == "CommandNotAllowed"    \* "Comando no permitido por la politica de seguridad."
DisallowedToken == "DisallowedToken"        \* "El comando contiene operadores no permitidos."
RemoteOpDisabled == "RemoteOpDisabled"      \* "Operaciones remotas de git estan deshabilitadas ..."
WorkingDirNotFound == "WorkingDirNotFound"  \* "El directorio indicado (para git) no existe."
OnlyGitAllowed == "OnlyGitAllowed"          \* "Solo se permite ejecutar el comando git ..."
MissingSubcommand == "MissingSubcommand"    \* "Debes especificar un subcomando de git."
SpawnFailure == "SpawnFailure"              \* the OS error of Command::output

GIT == <<"g", "i", "t">>
GIT_EXE == <<"g", "i", "t", ".", "e", "x", "e">>

\* Faulty variant of is_shell_command_allowed: any command is let through
is_shell_command_allowed_any(command) == TRUE

is_shell_command_allowed(command) ==
    \E i \in 1..Len(ALLOWED_SHELL_COMMANDS) :
        eq_ignore_ascii_case(ALLOWED_SHELL_COMMANDS[i], command)

\* Faulty variant of has_disallowed_tokens: ';' is not looked for
has_disallowed_tokens_noSemicolon(values) ==
    \E i \in 1..Len(values) : contains(values[i], "&") \/ contains(values[i], "|")

has_disallowed_tokens(values) ==
    \E i \in 1..Len(values) :
        contains(values[i], "&") \/ contains(values[i], "|") \/ contains(values[i], ";")

\* Faulty variant of IsBlockedSubcommand: the subcommand is compared as typed
IsBlockedSubcommand_caseSensitive(first) ==
    \E i \in 1..Len(BLOCKED_GIT_SUBCOMMANDS) : BLOCKED_GIT_SUBCOMMANDS[i] = first

\* The block-list test of mcp_git_exec on final_args[0]
IsBlockedSubcommand(first) ==
    LET subcommand == to_lowercase(first) IN
    \E i \in 1..Len(BLOCKED_GIT_SUBCOMMANDS) :
        eq_ignore_ascii_case(BLOCKED_GIT_SUBCOMMANDS[i], subcommand)

\* Faulty variant of ResolveWorkingDir: the cwd is joined to the root unchecked
ResolveWorkingDir_joined(root, cwd) ==
    IF cwd.some THEN Ok(root \o BodyComponents(cwd.val.segs)) ELSE Ok(root)

\* The working directory both entry points resolve: build_path or the root
ResolveWorkingDir(root, cwd) ==
    IF cwd.some THEN build_path(root, Some(cwd.val)) ELSE Ok(root)

\* Faulty variant of WorkingDirMissing: the existence test is skipped
WorkingDirMissing_unchecked(t, working_dir) == FALSE

\* !working_dir.exists()
WorkingDirMissing(t, working_dir) == ~exists(t, working_dir)

\* The Command a handler builds: program, args, current_dir and env overrides
NewCommand(program, args, working_dir, env) ==
    [program |-> program, args |-> args, current_dir |-> working_dir,
     env |-> unwrap_or(env, <<>>)]

\* mcp_shell_exec up to the call of spawn_command: the file system it leaves
\* and the Command to run, or the error it returns
shell_prepare(t, command, args, cwd, env) ==
    IF ~is_shell_command_allowed(command)
    THEN [tree |-> t, cmd |-> Err(CommandNotAllowed)]
    ELSE
    LET final_args == unwrap_or(args, <<>>) IN
    IF has_disallowed_tokens(final_args)
    THEN [tree |-> t, cmd |-> Err(DisallowedToken)]
    ELSE
    LET rooted == safe_root(t) IN
    IF ~rooted.ok THEN [tree |-> t, cmd |-> rooted]
    ELSE
    LET root == rooted.val.root
        t1 == rooted.val.tree
        working_dir == ResolveWorkingDir(root, cwd)
    IN
    IF ~working_dir.ok THEN [tree |-> t1, cmd |-> working_dir]
    ELSE IF WorkingDirMissing(t1, working_dir.val)
    THEN [tree |-> t1, cmd |-> Err(WorkingDirNotFound)]
    ELSE [tree |-> t1,
          cmd |-> Ok([command |-> NewCommand(command, final_args, working_dir.val, env),
                      command_name |-> command])]

\* mcp_git_exec up to the call of spawn_command
git_prepare(t, command, args, cwd, env) ==
    IF command # GIT /\ command # GIT_EXE
    THEN [tree |-> t, cmd |-> Err(OnlyGitAllowed)]
    ELSE
    LET rooted == safe_root(t) IN
    IF ~rooted.ok THEN [tree |-> t, cmd |-> rooted]
    ELSE
    LET root == rooted.val.root
        t1 == rooted.val.tree
        final_args == unwrap_or(args, <<>>)
    IN
    IF final_args = <<>> THEN [tree |-> t1, cmd |-> Err(MissingSubcommand)]
    ELSE IF IsBlockedSubcommand(final_args[1])
    THEN [tree |-> t1, cmd |-> Err(RemoteOpDisabled)]
    ELSE
    LET working_dir == ResolveWorkingDir(root, cwd) IN
    IF ~working_dir.ok THEN [tree |-> t1, cmd |-> working_dir]
    ELSE IF WorkingDirMissing(t1, working_dir.val)
    THEN [tree |-> t1, cmd |-> Err(WorkingDirNotFound)]
    ELSE [tree |-> t1,
          cmd |-> Ok([command |-> NewCommand(command, final_args, working_dir.val, env),
                      command_name |-> GIT])]

\* What Command::output can answer: the OS refuses to start the program (always
\* so when current_dir is not a directory), or the child ran and ended with an
\* exit code, or by a signal (no code)
OutputOutcomes(t, command) ==
    {Err(SpawnFailure)}
        \cup (IF is_dir(t, command.current_dir)
              THEN {Ok([code |-> Some(0)]), Ok([code |-> Some(1)]), Ok([code |-> None])}
              ELSE {})

\* spawn_command, given what Command::output answered
spawn_command(t, command, command_name, output) ==
    IF ~output.ok THEN [tree |-> t, result |-> output]
    ELSE
    LET exit_code == unwrap_or(output.val.code, 0 - 1)
        rooted == safe_root(t)
    IN
    IF ~rooted.ok THEN [tree |-> t, result |-> rooted]
    ELSE
    LET relative == relative_from_root(rooted.val.root, command.current_dir) IN
    [tree |-> rooted.val.tree,
     result |-> Ok([command |-> command_name,
                    args |-> command.args,
                    cwd |-> IF relative.ok THEN Some(relative.val) ELSE None,
                    exit_code |-> exit_code])]

----------------------------------------------------------------------------
(* Containment engine: caller paths and the specification that applies     *)
(* build_path to each of them                                              *)

Pieces == {"", ".", "..", "a", "b", BackslashName}

\* A relative string never starts with an empty piece (it would be absolute)
RelativeInputs ==
    {[abs |-> FALSE, segs |-> s] : s \in {t \in SeqUpTo(Pieces, MaxSegs) : t = <<>> \/ Head(t) # ""}}

\* Ways an absolute path can begin: the root itself, the root spelt with a
\* "." or an empty piece inside, a sibling of the root, a detour through "..",
\* and nothing at all
AbsoluteHeads ==
    { <<"home", "user", "Documentos", "CerebroProjects">>,
      <<"home", ".", "user", "Documentos", "", "CerebroProjects">>,
      <<"home", "user", "Documentos", "Other">>,
      <<"home", "user", "x", "..", "Documentos", "CerebroProjects">>,
      <<"home", "user", "Documentos">>,
      <<>> }

AbsoluteInputs ==
    {[abs |-> TRUE, segs |-> h \o s] : h \in AbsoluteHeads, s \in SeqUpTo(Pieces, MaxSegs)}

PathInputs == {None} \cup {Some(p) : p \in RelativeInputs \cup AbsoluteInputs}

Pending == [pending |-> TRUE]

ContainInit ==
    /\ cpInput \in PathInputs
    /\ cpResult = Pending
    /\ cpRelative = Pending
    /\ cpAgain = Pending

\* The containment engine at rest, while other components run
ContainIdle ==
    /\ cpInput = None
    /\ cpResult = Pending
    /\ cpRelative = Pending
    /\ cpAgain = Pending

\* A caller resolves its path: build_path(&root, input)
Contain ==
    /\ cpResult = Pending
    /\ cpResult' = build_path(SafeRootPath, cpInput)
    /\ UNCHANGED <<cpInput, cpRelative, cpAgain, codecVars, gatewayVars, metricsVars>>

\* The contained path is reported back to the caller:
\* relative_from_root(&root, &target)
Relativize ==
    /\ cpResult # Pending
    /\ cpResult.ok
    /\ cpRelative = Pending
    /\ cpRelative' = relative_from_root(SafeRootPath, cpResult.val)
    /\ UNCHANGED <<cpInput, cpResult, cpAgain, codecVars, gatewayVars, metricsVars>>

\* The caller hands the reported string back: build_path(&root, Some(r))
ContainAgain ==
    /\ cpRelative # Pending
    /\ cpRelative.ok
    /\ cpAgain = Pending
    /\ cpAgain' = build_path(SafeRootPath, Some(cpRelative.val))
    /\ UNCHANGED <<cpInput, cpResult, cpRelative, codecVars, gatewayVars, metricsVars>>

----------------------------------------------------------------------------
(* Codec: the byte sequences and texts it is applied to *)

\* Byte values: all bits clear, all set, and mixed patterns
ByteValues == {0, 77, 131, 250, 255}

DataInputs == SeqUpTo(ByteValues, MaxBytes)

\* Characters of caller texts: alphabet symbols, padding, a character
\* outside the alphabet, and whitespace
TextChars == {"A", "/", "=", "!", " "}

\* Two-group texts, padded in the first or in the last group
LongTexts ==
    { <<"A", "A", "=", "=", "A", "A", "A", "A">>,
      <<"A", "A", "A", "A", "A", "/", "=", "=">>,
      <<"A", "A", "A", "A", " ", "/", "A", "A", "=">>,
      <<"A", "A", "A", "A", "A", "!", "A", "A">> }

TextInputs == SeqUpTo(TextChars, MaxChars) \cup LongTexts

CodecInit ==
    /\ \/ cdData \in {Some(d) : d \in DataInputs} /\ cdText = Pending
       \/ cdData = None /\ cdText \in {Some(t) : t \in TextInputs}
    /\ cdDecoded = Pending

\* The codec at rest, while other components run
CodecIdle ==
    /\ cdData = None
    /\ cdText = Some(<<>>)
    /\ cdDecoded = Pending

\* File bytes are encoded for a reader: encode_base64(&data)
Encode ==
    /\ cdData.some
    /\ cdText = Pending
    /\ cdText' = Some(encode_base64(cdData.val))
    /\ UNCHANGED <<cdData, cdDecoded, containVars, gatewayVars, metricsVars>>

\* A text is decoded for a writer: decode_base64(&content)
Decode ==
    /\ cdText # Pending
    /\ cdDecoded = Pending
    /\ cdDecoded' = decode_base64(cdText.val)
    /\ UNCHANGED <<cdData, cdText, containVars, gatewayVars, metricsVars>>

----------------------------------------------------------------------------
(* Metrics log.  The file is a sequence of tokens: the braces and fields   *)
(* of the JSON objects serde_json writes, and the newline byte.            *)

LBrace == [t |-> "{"]
RBrace == [t |-> "}"]
Newline == [t |-> "\n"]
Space == [t |-> " "]
Field(k, v) == [t |-> "field", k |-> k, v |-> v]
Num(n) == [num |-> n]
Str(x) == [str |-> x]
Bool(b) == [bool |-> b]

IsField(token) == token.t = "field"
IsNum(v) == DOMAIN v = {"num"}
IsStr(v) == DOMAIN v = {"str"}
IsBool(v) == DOMAIN v = {"bool"}

\* serde_json::to_string(&entry): the Option fields are skipped when None
to_string(entry) ==
    <<LBrace,
      Field("timestamp", Num(entry.timestamp)),
      Field("mode", Str(entry.mode)),
      Field("provider", Str(entry.provider))>>
    \o (IF entry.latency_ms.some THEN <<Field("latencyMs", Num(entry.latency_ms.val))>> ELSE <<>>)
    \o (IF entry.tokens_in.some THEN <<Field("tokensIn", Num(entry.tokens_in.val))>> ELSE <<>>)
    \o (IF entry.tokens_out.some THEN <<Field("tokensOut", Num(entry.tokens_out.val))>> ELSE <<>>)
    \o <<Field("success", Bool(entry.success)), RBrace>>

ParseError == "ParseError"

\* serde_json::from_str::<MetricsEntry>: one object, each known key at most
\* once and of its type, the four required keys present, unknown keys ignored
from_str(line) ==
    LET n == Len(line)
        Body == 2..(n - 1)
        Holds(key) == {i \in Body : line[i].k = key}
        ValueOf(key) == line[CHOOSE i \in Holds(key) : TRUE].v
        Optional(key) == IF Holds(key) = {} THEN None ELSE Some(ValueOf(key).num)
        NumKeys == {"timestamp", "latencyMs", "tokensIn", "tokensOut"}
        StrKeys == {"mode", "provider"}
        BoolKeys == {"success"}
        Required == {"timestamp", "mode", "provider", "success"}
    IN IF n < 2 \/ line[1] # LBrace \/ line[n] # RBrace THEN Err(ParseError)
       ELSE IF \E i \in Body : ~IsField(line[i]) THEN Err(ParseError)
       ELSE IF \E key \in NumKeys \cup StrKeys \cup BoolKeys : Cardinality(Holds(key)) > 1
            THEN Err(ParseError)
       ELSE IF \E i \in Body :
                 \/ line[i].k \in NumKeys /\ ~IsNum(line[i].v)
                 \/ line[i].k \in StrKeys /\ ~IsStr(line[i].v)
                 \/ line[i].k \in BoolKeys /\ ~IsBool(line[i].v)
            THEN Err(ParseError)
       ELSE IF \E key \in Required : Holds(key) = {} THEN Err(ParseError)
       ELSE Ok([timestamp |-> ValueOf("timestamp").num,
                mode |-> ValueOf("mode").str,
                provider |-> ValueOf("provider").str,
                latency_ms |-> Optional("latencyMs"),
                tokens_in |-> Optional("tokensIn"),
                tokens_out |-> Optional("tokensOut"),
                success |-> ValueOf("success").bool])

\* BufRead::lines: the pieces ended by a newline, and a last unended piece
lines(content) ==
    LET ends == {i \in 1..Len(content) : content[i] = Newline}
        EndOf(k) == CHOOSE i \in ends : Cardinality({j \in ends : j < i}) = k - 1
        StartOf(k) == IF k = 1 THEN 1 ELSE EndOf(k - 1) + 1
        count == Cardinality(ends)
        ended == [k \in 1..count |-> SubSeq(content, StartOf(k), EndOf(k) - 1)]
    IN IF StartOf(count + 1) <= Len(content)
       THEN Append(ended, SubSeq(content, StartOf(count + 1), Len(content)))
       ELSE ended

\* line.trim().is_empty()
TrimIsEmpty(line) == \A i \in 1..Len(line) : line[i] = Space

DEFAULT_TAIL_LIMIT == 20

\* Faulty variant of KeepLast: the first `keep` lines are kept (truncate for split_off)
KeepLast_first(all, keep) ==
    IF Len(all) > keep THEN SubSeq(all, 1, keep) ELSE all

\* if lines.len() > keep { lines = lines.split_off(lines.len() - keep) }
KeepLast(all, keep) ==
    IF Len(all) > keep THEN SubSeq(all, Len(all) - keep + 1, Len(all)) ELSE all

\* Faulty variant of CollectEntries: the loop ends at the first line it cannot parse
RECURSIVE CollectEntries_stopAtError(_)
CollectEntries_stopAtError(kept) ==
    IF kept = <<>> THEN <<>>
    ELSE IF TrimIsEmpty(Head(kept)) THEN CollectEntries_stopAtError(Tail(kept))
    ELSE LET parsed == from_str(Head(kept)) IN
         IF parsed.ok THEN <<parsed.val>> \o CollectEntries_stopAtError(Tail(kept))
         ELSE <<>>

\* The loop of mcp_metrics_tail over the kept lines
RECURSIVE CollectEntries(_)
CollectEntries(kept) ==
    IF kept = <<>> THEN <<>>
    ELSE IF TrimIsEmpty(Head(kept)) THEN CollectEntries(Tail(kept))
    ELSE LET parsed == from_str(Head(kept)) IN
         IF parsed.ok THEN <<parsed.val>> \o CollectEntries(Tail(kept))
         ELSE CollectEntries(Tail(kept))

\* mcp_metrics_tail on the file as it is read
mcp_metrics_tail(file, limit) ==
    IF ~file.some THEN Ok(<<>>)
    ELSE LET keep == unwrap_or(limit, DEFAULT_TAIL_LIMIT) IN
         Ok(CollectEntries(KeepLast(lines(file.val), keep)))

\* The entry the client sends with its i-th appendMetric call
EntryFor(i) ==
    [timestamp |-> i,
     mode |-> IF i % 2 = 0 THEN "chat" ELSE "code",
     provider |-> "local",
     latency_ms |-> IF i % 2 = 1 THEN Some(10 * i) ELSE None,
     tokens_in |-> IF i % 3 = 0 THEN Some(i) ELSE None,
     tokens_out |-> IF i % 3 = 1 THEN Some(i + 1) ELSE None,
     success |-> i % 4 # 3]

Appenders == 1..NumAppenders

AtRest == [pc |-> "rest"]
NoTail == [answered |-> FALSE]

Limits == {None} \cup {Some(k) : k \in 0..MaxLimit}

MetricsInit ==
    /\ log \in {None, Some(<<>>)}
    /\ ap = [p \in Appenders |-> AtRest]
    /\ calls = 0
    /\ appended = <<>>
    /\ tl = NoTail

\* The metrics log at rest, while other components run
MetricsIdle ==
    /\ log = None
    /\ ap = [p \in Appenders |-> AtRest]
    /\ calls = 0
    /\ appended = <<>>
    /\ tl = NoTail

\* mcp_metrics_append, lines 783-789: the entry is serialized and the file
\* opened in append mode, created if absent
AppendOpen(p, max) ==
    /\ ap[p] = AtRest
    /\ calls < max
    /\ calls' = calls + 1
    /\ ap' = [ap EXCEPT ![p] = [pc |-> "opened", entry |-> EntryFor(calls + 1),
                                line |-> to_string(EntryFor(calls + 1))]]
    /\ log' = IF log.some THEN log ELSE Some(<<>>)
    /\ UNCHANGED <<appended, tl, containVars, codecVars, gatewayVars>>

\* line 790: file.write_all(line.as_bytes()), at the end of the file
AppendWriteLine(p) ==
    /\ ap[p].pc = "opened"
    /\ log' = Some(log.val \o ap[p].line)
    /\ ap' = [ap EXCEPT ![p].pc = "wrote_line"]
    /\ UNCHANGED <<calls, appended, tl, containVars, codecVars, gatewayVars>>

\* lines 791-792: file.write_all(b"\n"), and the call returns Ok
AppendWriteNewline(p) ==
    /\ ap[p].pc = "wrote_line"
    /\ log' = Some(Append(log.val, Newline))
    /\ ap' = [ap EXCEPT ![p] = AtRest]
    /\ appended' = Append(appended, ap[p].entry)
    /\ UNCHANGED <<calls, tl, containVars, codecVars, gatewayVars>>

\* mcp_metrics_tail runs and answers
TailCall ==
    /\ tl = NoTail
    /\ \E limit \in Limits :
          tl' = [answered |-> TRUE, limit |-> limit, result |-> mcp_metrics_tail(log, limit)]
    /\ UNCHANGED <<log, ap, calls, appended, containVars, codecVars, gatewayVars>>

\* The client receives the entries
TailReturn ==
    /\ tl # NoTail
    /\ tl' = NoTail
    /\ UNCHANGED <<log, ap, calls, appended, containVars, codecVars, gatewayVars>>

----------------------------------------------------------------------------
(* The gateway: one synchronous call at a time, from request to response   *)

Idle == [phase |-> "idle"]

\* Strings the modelled clients send
HI == <<"h", "i">>
BASE64_UPPER == <<"B", "A", "S", "E", "6", "4">>
LS == <<"l", "s">>
LS_UPPER == <<"L", "S">>
CARGO_MIXED == <<"C", "a", "r", "g", "o">>
CURL == <<"c", "u", "r", "l">>
RM == <<"r", "m">>
DASH_LA == <<"-", "l", "a">>
AMP_AMP == <<"&", "&">>
A_PIPE_B == <<"a", "|", "b">>
X_SEMI == <<"x", ";">>
STATUS == <<"s", "t", "a", "t", "u", "s">>
PUSH == <<"p", "u", "s", "h">>
PUSH_UPPER == <<"P", "U", "S", "H">>
PULL_MIXED == <<"P", "u", "l", "l">>
FETCH == <<"f", "e", "t", "c", "h">>
REMOTE == <<"r", "e", "m", "o", "t", "e">>
CLONE_UPPER == <<"C", "L", "O", "N", "E">>
PUSHX == <<"p", "u", "s", "h", "x">>
GIT_UPPER == <<"G", "I", "T">>
ENV_PAIR == <<<<"C", "I">>, <<"1">>>>


\* Caller strings of the gateway's requests
PathStr(abs, segs) == [abs |-> abs, segs |-> segs]

RootSegs == <<"home", "user", "Documentos", "CerebroProjects">>

WritePaths ==
    { PathStr(FALSE, <<"a.txt">>),
      PathStr(FALSE, <<"d", "b.txt">>),
      PathStr(FALSE, <<"d">>),
      PathStr(FALSE, <<".">>),
      PathStr(FALSE, <<"..", "x">>),
      PathStr(FALSE, <<"a.txt", "c">>),
      PathStr(TRUE, RootSegs \o <<"d", "..", "a.txt">>),
      PathStr(TRUE, <<"etc", "x">>) }

WriteContents ==
    { HI, <<"Q", "Q", "=", "=">>, <<"a", "G", "k", "=">>, <<"a", "!", "=", "=">> }

Encodings == {None, Some(UTF8), Some(BASE64), Some(BASE64_UPPER)}

Overwrites == {None, Some(TRUE), Some(FALSE)}

WriteRequests ==
    [path : WritePaths, content : WriteContents, encoding : Encodings, overwrite : Overwrites]

WorkingDirs ==
    { None,
      Some(PathStr(FALSE, <<".">>)),
      Some(PathStr(FALSE, <<"d">>)),
      Some(PathStr(FALSE, <<"a.txt">>)),
      Some(PathStr(FALSE, <<"d", "..", "..", "x">>)),
      Some(PathStr(TRUE, RootSegs \o <<"d">>)),
      Some(PathStr(TRUE, <<"etc">>)) }

EnvOverrides == {None, Some(<<ENV_PAIR>>)}

ShellCommands == {LS, LS_UPPER, CARGO_MIXED, CURL, RM, GIT}

ShellArgs ==
    { None,
      Some(<<>>),
      Some(<<DASH_LA>>),
      Some(<<AMP_AMP, RM>>),
      Some(<<DASH_LA, A_PIPE_B>>),
      Some(<<X_SEMI>>) }

ShellRequests ==
    [command : ShellCommands, args : ShellArgs, cwd : WorkingDirs, env : EnvOverrides]

GitCommands == {GIT, GIT_EXE, GIT_UPPER, LS}

GitArgs ==
    { None,
      Some(<<>>),
      Some(<<STATUS>>),
      Some(<<PUSH>>),
      Some(<<PUSH_UPPER>>),
      Some(<<PULL_MIXED>>),
      Some(<<FETCH>>),
      Some(<<REMOTE, DASH_LA>>),
      Some(<<CLONE_UPPER>>),
      Some(<<STATUS, PUSH>>),
      Some(<<PUSHX>>) }

GitRequests ==
    [command : GitCommands, args : GitArgs, cwd : WorkingDirs, env : EnvOverrides]

GatewayInit ==
    /\ tree = TreeInit
    /\ rpc = Idle

\* A client sends writeFile
RequestWrite ==
    /\ rpc = Idle
    /\ \E req \in WriteRequests : rpc' = [phase |-> "request", op |-> "write", req |-> req]
    /\ UNCHANGED <<tree, containVars, codecVars, metricsVars>>

\* mcp_files_write runs
HandleWrite ==
    /\ rpc.phase = "request"
    /\ rpc.op = "write"
    /\ LET done == mcp_files_write(tree, rpc.req.path, rpc.req.content,
                                   rpc.req.encoding, rpc.req.overwrite)
       IN /\ tree' = done.tree
          /\ rpc' = [phase |-> "response", op |-> "write", req |-> rpc.req,
                     result |-> done.result, launched |-> None]
    /\ UNCHANGED <<containVars, codecVars, metricsVars>>

\* A client sends execShell
RequestShell ==
    /\ rpc = Idle
    /\ \E req \in ShellRequests : rpc' = [phase |-> "request", op |-> "shell", req |-> req]
    /\ UNCHANGED <<tree, containVars, codecVars, metricsVars>>

\* A client sends execVersionControl
RequestGit ==
    /\ rpc = Idle
    /\ \E req \in GitRequests : rpc' = [phase |-> "request", op |-> "git", req |-> req]
    /\ UNCHANGED <<tree, containVars, codecVars, metricsVars>>

\* The tail both exec handlers share: return the error, or hand the Command
\* to spawn_command, where Command::output answers one of its outcomes
RunPrepared(prepared) ==
    IF ~prepared.cmd.ok
    THEN /\ tree' = prepared.tree
         /\ rpc' = [phase |-> "response", op |-> rpc.op, req |-> rpc.req,
                    result |-> prepared.cmd, launched |-> None]
    ELSE \E output \in OutputOutcomes(prepared.tree, prepared.cmd.val.command) :
            LET done == spawn_command(prepared.tree, prepared.cmd.val.command,
                                      prepared.cmd.val.command_name, output)
            IN /\ tree' = done.tree
               /\ rpc' = [phase |-> "response", op |-> rpc.op, req |-> rpc.req,
                          result |-> done.result,
                          launched |-> Some(prepared.cmd.val.command)]

\* mcp_shell_exec runs
HandleShell ==
    /\ rpc.phase = "request"
    /\ rpc.op = "shell"
    /\ RunPrepared(shell_prepare(tree, rpc.req.command, rpc.req.args, rpc.req.cwd, rpc.req.env))
    /\ UNCHANGED <<containVars, codecVars, metricsVars>>

\* mcp_git_exec runs
HandleGit ==
    /\ rpc.phase = "request"
    /\ rpc.op = "git"
    /\ RunPrepared(git_prepare(tree, rpc.req.command, rpc.req.args, rpc.req.cwd, rpc.req.env))
    /\ UNCHANGED <<containVars, codecVars, metricsVars>>

\* The client receives the response
Return ==
    /\ rpc.phase = "response"
    /\ rpc' = Idle
    /\ UNCHANGED <<tree, containVars, codecVars, metricsVars>>

----------------------------------------------------------------------------
(* Specifications *)

\* The gateway: file writes and process execution over one file system
Init == GatewayInit /\ ContainIdle /\ CodecIdle /\ MetricsIdle

Next ==
    \/ RequestWrite
    \/ HandleWrite
    \/ RequestShell
    \/ HandleShell
    \/ RequestGit
    \/ HandleGit
    \/ Return

Spec == Init /\ [][Next]_vars

\* The containment engine applied to every caller path
InitContain == ContainInit /\ CodecIdle /\ GatewayInit /\ MetricsIdle

NextContain == Contain \/ Relativize \/ ContainAgain

SpecContain == InitContain /\ [][NextContain]_vars

\* The codec applied to every byte sequence and caller text
InitCodec == CodecInit /\ ContainIdle /\ GatewayInit /\ MetricsIdle

NextCodec == Encode \/ Decode

SpecCodec == InitCodec /\ [][NextCodec]_vars

\* The metrics log with concurrent appendMetric callers
InitMetrics == MetricsInit /\ GatewayInit /\ ContainIdle /\ CodecIdle

NextMetrics ==
    \/ \E p \in Appenders : AppendOpen(p, MaxAppends)
    \/ \E p \in Appenders : AppendWriteLine(p)
    \/ \E p \in Appenders : AppendWriteNewline(p)
    \/ TailCall
    \/ TailReturn

SpecMetrics == InitMetrics /\ [][NextMetrics]_vars

\* The metrics log with one appendMetric caller and no other writer
NextMetricsSeq ==
    \/ AppendOpen(1, MaxSeqAppends)
    \/ AppendWriteLine(1)
    \/ AppendWriteNewline(1)
    \/ TailCall
    \/ TailReturn

SpecMetricsSeq == InitMetrics /\ [][NextMetricsSeq]_vars


----------------------------------------------------------------------------
(* Containment claims.  The expected results are stated on the caller's    *)
(* pieces, without the engine's accumulator.                               *)

IsNormalPiece(x) == x \notin {"", ".", "..", "/"}

\* Number of the first k components that are parent references / names
CountParents(cs, k) == Cardinality({i \in 1..k : cs[i] = ".."})
CountNormals(cs, k) == Cardinality({i \in 1..k : IsNormalPiece(cs[i])})

\* Some prefix holds more ".." than names: the path crosses above its start
CrossesAbove(cs) == \E k \in 1..Len(cs) : CountParents(cs, k) > CountNormals(cs, k)

\* The names that survive when each ".." cancels the name before it
RECURSIVE Surviving(_, _)
Surviving(stack, cs) ==
    IF cs = <<>> THEN stack
    ELSE IF Head(cs) = ".." THEN Surviving(SubSeq(stack, 1, Len(stack) - 1), Tail(cs))
    ELSE IF IsNormalPiece(Head(cs)) THEN Surviving(Append(stack, Head(cs)), Tail(cs))
    ELSE Surviving(stack, Tail(cs))

ExpectedRelative(cs) ==
    IF CrossesAbove(cs) THEN Err(OutOfOrbit) ELSE Ok(SafeRootPath \o Surviving(<<>>, cs))

Contained == cpResult # Pending

\* C1: whenever contain returns a path, the root is a component-wise prefix
\* of it; an absent path returns the root itself; a relative path made only
\* of normal segments returns the root followed by those segments.
C1_ResultUnderRoot ==
    Contained =>
        /\ cpResult.ok =>
              /\ Len(cpResult.val) >= Len(SafeRootPath)
              /\ \A i \in 1..Len(SafeRootPath) : cpResult.val[i] = SafeRootPath[i]
        /\ ~cpInput.some => cpResult = Ok(SafeRootPath)
        /\ (/\ cpInput.some
            /\ ~cpInput.val.abs
            /\ \A i \in 1..Len(cpInput.val.segs) : IsNormalPiece(cpInput.val.segs[i]))
           => cpResult = Ok(SafeRootPath \o cpInput.val.segs)

\* C1 witness: a path mixing names and ".." was contained strictly below root
C1_Witness ==
    /\ Contained
    /\ cpInput.some
    /\ \E i \in 1..Len(cpInput.val.segs) : cpInput.val.segs[i] = ".."
    /\ cpResult.ok
    /\ Len(cpResult.val) > Len(SafeRootPath)

\* C2: a relative path that meets ".." while the accumulator equals root
\* (some prefix has more ".." than names) fails with OutOfOrbit and is never
\* clamped; below root a ".." only removes the last appended segment.
C2_ParentAtRootRejected ==
    (Contained /\ cpInput.some /\ ~cpInput.val.abs) =>
        IF CrossesAbove(cpInput.val.segs)
        THEN cpResult = Err(OutOfOrbit)
        ELSE cpResult = Ok(SafeRootPath \o Surviving(<<>>, cpInput.val.segs))

\* C2 witness: "a/../../x"-like input, a name first and then one ".." too many
C2_Witness ==
    /\ Contained
    /\ cpInput.some
    /\ ~cpInput.val.abs
    /\ Len(cpInput.val.segs) >= 3
    /\ IsNormalPiece(cpInput.val.segs[1])
    /\ cpInput.val.segs[2] = ".."
    /\ cpInput.val.segs[3] = ".."
    /\ cpResult = Err(OutOfOrbit)

\* C3: an absolute path fails with OutOfOrbit when root is not a literal
\* component-wise prefix of it; otherwise its result is that of the remainder
\* taken as a relative path (root itself yields root, root/../x fails).
C3_AbsoluteStripsRoot ==
    (Contained /\ cpInput.some /\ cpInput.val.abs) =>
        LET cs == Components(cpInput.val)
            n == Len(SafeRootPath)
        IN IF Len(cs) >= n /\ \A i \in 1..n : cs[i] = SafeRootPath[i]
           THEN cpResult = ExpectedRelative(SubSeq(cs, n + 1, Len(cs)))
           ELSE cpResult = Err(OutOfOrbit)

\* C3 witness: the absolute path root/../x was rejected
C3_Witness ==
    /\ Contained
    /\ cpInput.some
    /\ cpInput.val.abs
    /\ cpInput.val.segs = <<"home", "user", "Documentos", "CerebroProjects", "..", "a">>
    /\ cpResult = Err(OutOfOrbit)

\* What contain is expected to return for a caller string
ExpectedContain(p) ==
    IF p.abs
    THEN LET cs == Components(p)
             n == Len(SafeRootPath)
         IN IF Len(cs) >= n /\ \A i \in 1..n : cs[i] = SafeRootPath[i]
            THEN ExpectedRelative(SubSeq(cs, n + 1, Len(cs)))
            ELSE Err(OutOfOrbit)
    ELSE ExpectedRelative(p.segs)

----------------------------------------------------------------------------
(* Execution gateway claims *)

Responded(op) == rpc.phase = "response" /\ rpc.op = op

RequestArgs == IF rpc.req.args.some THEN rpc.req.args.val ELSE <<>>

\* Two characters that are the same letter in either case, or equal
SameLetter(x, y) ==
    x = y \/ \E i \in 1..26 : {x, y} = {Uppercase[i], Lowercase[i]}

SameIgnoringCase(a, b) ==
    Len(a) = Len(b) /\ \A i \in 1..Len(a) : SameLetter(a[i], b[i])

AllowListed(command) ==
    \E i \in 1..Len(ALLOWED_SHELL_COMMANDS) :
        SameIgnoringCase(ALLOWED_SHELL_COMMANDS[i], command)

HasChainingChar(arg) == \E i \in 1..Len(arg) : arg[i] \in {"&", "|", ";"}

SomeArgChains == \E i \in 1..Len(RequestArgs) : HasChainingChar(RequestArgs[i])

\* C4: execShell launches a process only for an allow-listed program (in any
\* letter case) whose arguments hold no '&', '|' or ';'; another program gets
\* CommandNotAllowed, an allowed one with such an argument DisallowedToken,
\* and neither launches anything.
C4_ShellAllowList ==
    Responded("shell") =>
        /\ rpc.launched.some => (AllowListed(rpc.req.command) /\ ~SomeArgChains)
        /\ ~AllowListed(rpc.req.command) =>
              (rpc.result = Err(CommandNotAllowed) /\ ~rpc.launched.some)
        /\ (AllowListed(rpc.req.command) /\ SomeArgChains) =>
              (rpc.result = Err(DisallowedToken) /\ ~rpc.launched.some)

\* C4 witness: "LS" was launched, the allow-list entry being "ls"
C4_Witness ==
    /\ Responded("shell")
    /\ rpc.req.command = LS_UPPER
    /\ rpc.launched.some
    /\ rpc.launched.val.program = LS_UPPER
    /\ rpc.result.ok

BlockedSubcommand(first) ==
    \E i \in 1..Len(BLOCKED_GIT_SUBCOMMANDS) :
        SameIgnoringCase(BLOCKED_GIT_SUBCOMMANDS[i], first)

IsGitProgram(command) == command \in {GIT, GIT_EXE}

\* The working directory the request asks for: the root when cwd is absent
ExpectedWorkingDir == IF rpc.req.cwd.some THEN ExpectedContain(rpc.req.cwd.val) ELSE Ok(SafeRootPath)

\* C5: execVersionControl launches a process only for the literal git
\* program with a first argument that is, in any letter case, none of push,
\* pull, fetch, remote, clone; a blocked first argument fails with
\* RemoteOpDisabled and launches nothing; any other subcommand is launched
\* once the working directory is valid.
C5_GitBlockList ==
    Responded("git") =>
        /\ rpc.launched.some =>
              /\ IsGitProgram(rpc.req.command)
              /\ RequestArgs # <<>>
              /\ ~BlockedSubcommand(RequestArgs[1])
        /\ (IsGitProgram(rpc.req.command) /\ RequestArgs # <<>> /\ BlockedSubcommand(RequestArgs[1])) =>
              (rpc.result = Err(RemoteOpDisabled) /\ ~rpc.launched.some)
        /\ (/\ IsGitProgram(rpc.req.command)
            /\ RequestArgs # <<>>
            /\ ~BlockedSubcommand(RequestArgs[1])
            /\ ExpectedWorkingDir.ok
            /\ exists(tree, ExpectedWorkingDir.val))
           => /\ rpc.launched.some
              /\ rpc.launched.val.program = rpc.req.command
              /\ rpc.launched.val.args = RequestArgs

\* C5 witness: "Pull" was refused
C5_Witness ==
    /\ Responded("git")
    /\ rpc.req.command = GIT
    /\ rpc.req.args = Some(<<PULL_MIXED>>)
    /\ rpc.result = Err(RemoteOpDisabled)
    /\ ~rpc.launched.some

\* The request passes the entry point's program and argument policy
PassesPolicy ==
    IF rpc.op = "shell"
    THEN AllowListed(rpc.req.command) /\ ~SomeArgChains
    ELSE IsGitProgram(rpc.req.command) /\ RequestArgs # <<>> /\ ~BlockedSubcommand(RequestArgs[1])

\* C6: every launched process has as working directory the root (cwd absent)
\* or the containment of the cwd, under the root and existing; a cwd escaping
\* the root fails with OutOfOrbit and a missing one with WorkingDirNotFound,
\* both without a launch.
C6_WorkingDirContained ==
    (Responded("shell") \/ Responded("git")) =>
        /\ rpc.launched.some =>
              /\ ExpectedWorkingDir.ok
              /\ rpc.launched.val.current_dir = ExpectedWorkingDir.val
              /\ Len(rpc.launched.val.current_dir) >= Len(SafeRootPath)
              /\ \A i \in 1..Len(SafeRootPath) : rpc.launched.val.current_dir[i] = SafeRootPath[i]
              /\ exists(tree, rpc.launched.val.current_dir)
        /\ (PassesPolicy /\ ~ExpectedWorkingDir.ok) =>
              (rpc.result = Err(OutOfOrbit) /\ ~rpc.launched.some)
        /\ (PassesPolicy /\ ExpectedWorkingDir.ok /\ ~exists(tree, ExpectedWorkingDir.val)) =>
              (rpc.result = Err(WorkingDirNotFound) /\ ~rpc.launched.some)

\* C6 witness: a process ran in the directory d that an earlier write made
C6_Witness ==
    /\ Responded("shell")
    /\ rpc.req.cwd = Some(PathStr(FALSE, <<"d">>))
    /\ rpc.launched.some
    /\ rpc.launched.val.current_dir = SafeRootPath \o <<"d">>
    /\ rpc.result.ok
    /\ rpc.result.val.cwd = Some(PathStr(FALSE, <<"d">>))

----------------------------------------------------------------------------
(* File write claims, on the step from a writeFile request to its response *)

WriteStep == rpc.phase = "request" /\ rpc.op = "write" /\ rpc'.phase = "response"

Absent == [kind |-> "absent"]
NodeAt(t, path) == IF exists(t, path) THEN t[path] ELSE Absent

WriteTarget == ExpectedContain(rpc.req.path)

MayOverwrite == rpc.req.overwrite # Some(FALSE)

\* C7 as stated: on an existing target, overwrite=false fails and leaves the
\* content; overwrite true or omitted replaces the content by the decoded
\* payload and reports created=false; created=true exactly when the target
\* did not exist; bytesWritten is the decoded payload's length.
C7_AsStated ==
    [][(WriteStep /\ WriteTarget.ok) =>
        LET target == WriteTarget.val
            existed == exists(tree, target)
            payload == WritePayload(rpc.req.content, rpc.req.encoding)
        IN /\ (existed /\ ~MayOverwrite) =>
                  (~rpc'.result.ok /\ NodeAt(tree', target) = NodeAt(tree, target))
           /\ (existed /\ MayOverwrite) =>
                  /\ rpc'.result.ok
                  /\ payload.ok
                  /\ NodeAt(tree', target) = File(payload.val)
                  /\ rpc'.result.val.created = FALSE
           /\ rpc'.result.ok =>
                  /\ rpc'.result.val.created = ~existed
                  /\ payload.ok
                  /\ rpc'.result.val.bytes = Len(payload.val)
    ]_vars

\* C7 amended: as C7, but an existing target is overwritten only when it is a
\* regular file and the payload decodes: a payload that fails to decode, or a
\* target that is a directory, makes the call fail and leaves the target.
C7_Amended ==
    [][(WriteStep /\ WriteTarget.ok) =>
        LET target == WriteTarget.val
            existed == exists(tree, target)
            payload == WritePayload(rpc.req.content, rpc.req.encoding)
        IN /\ (existed /\ ~MayOverwrite) =>
                  (~rpc'.result.ok /\ NodeAt(tree', target) = NodeAt(tree, target))
           /\ (existed /\ MayOverwrite /\ is_file(tree, target) /\ payload.ok) =>
                  /\ rpc'.result.ok
                  /\ NodeAt(tree', target) = File(payload.val)
                  /\ rpc'.result.val.created = FALSE
           /\ (existed /\ MayOverwrite /\ (is_dir(tree, target) \/ ~payload.ok)) =>
                  (~rpc'.result.ok /\ NodeAt(tree', target) = NodeAt(tree, target))
           /\ rpc'.result.ok =>
                  /\ rpc'.result.val.created = ~existed
                  /\ payload.ok
                  /\ rpc'.result.val.bytes = Len(payload.val)
                  /\ NodeAt(tree', target) = File(payload.val)
    ]_vars

\* C7 witness: an existing file was overwritten with a base64 payload, the
\* overwrite flag omitted, and the response says created=false, 1 byte
C7_Witness ==
    /\ Responded("write")
    /\ rpc.req.path = PathStr(FALSE, <<"a.txt">>)
    /\ rpc.req.overwrite = None
    /\ rpc.req.encoding = Some(BASE64_UPPER)
    /\ rpc.result.ok
    /\ rpc.result.val.created = FALSE
    /\ rpc.result.val.bytes = 1
    /\ tree[SafeRootPath \o <<"a.txt">>] = File(<<65>>)

----------------------------------------------------------------------------
(* Metrics log claims *)

AllAtRest == \A p \in Appenders : ap[p] = AtRest

\* The step on which tailMetrics answers
TailStep == ~tl.answered /\ tl'.answered

Min(a, b) == IF a < b THEN a ELSE b

LastOf(seq, k) == SubSeq(seq, Len(seq) - Min(k, Len(seq)) + 1, Len(seq))

AskedLimit(answer) == IF answer.limit.some THEN answer.limit.val ELSE 20

\* C8: with a single writer and no append in progress, tailMetrics(k) returns
\* exactly the last min(k, n) of the n appended records, oldest first (k is 20
\* when omitted; an absent log gives no records); no step changes what the
\* log already holds.
C8_TailReturnsLastAppended ==
    [][/\ (TailStep /\ AllAtRest) =>
              tl'.result = Ok(LastOf(appended, AskedLimit(tl')))
       /\ (TailStep /\ ~log.some) => tl'.result = Ok(<<>>)
       /\ log.some =>
              /\ log'.some
              /\ Len(log'.val) >= Len(log.val)
              /\ \A i \in 1..Len(log.val) : log'.val[i] = log.val[i]
    ]_vars

\* C8 witness: five records appended, tailMetrics(2) answered the 4th and 5th
C8_Witness ==
    /\ tl.answered
    /\ tl.limit = Some(2)
    /\ AllAtRest
    /\ calls = 5
    /\ Len(appended) = 5
    /\ tl.result = Ok(<<EntryFor(4), EntryFor(5)>>)

\* text, then a newline, stands in the content as one whole line
IsWholeLineOf(content, text) ==
    \E i \in 1..Len(content) :
        /\ i = 1 \/ content[i - 1] = Newline
        /\ i + Len(text) <= Len(content)
        /\ SubSeq(content, i, i + Len(text) - 1) = text
        /\ content[i + Len(text)] = Newline

\* C9: whatever the interleaving of concurrent appendMetric calls, every
\* record whose call has returned stands in the log as one complete line: its
\* serialized text, then its own newline, no bytes of another record between.
C9_EachAppendIsOneLine ==
    \A i \in 1..Len(appended) :
        log.some /\ IsWholeLineOf(log.val, to_string(appended[i]))

\* The record a line is the serialization of, if any
IsRecordLine(line) == \E i \in 1..calls : to_string(EntryFor(i)) = line
RecordOfLine(line) == EntryFor(CHOOSE i \in 1..calls : to_string(EntryFor(i)) = line)

RecordsAmong(kept) ==
    LET valid == SelectSeq(kept, IsRecordLine) IN
    [j \in 1..Len(valid) |-> RecordOfLine(valid[j])]

IsBlankLine(line) == \A i \in 1..Len(line) : line[i] = Space
IsNotBlankLine(line) == ~IsBlankLine(line)

----------------------------------------------------------------------------
(* Round trip of the containment engine *)

Relativized == cpRelative # Pending
ContainedAgain == cpAgain # Pending

\* The names of a contained path below the root
BelowRoot(c) == SubSeq(c, Len(SafeRootPath) + 1, Len(c))

\* C11: when contain succeeds with c, toRelative(root, c) succeeds with "."
\* when c is the root and otherwise with the segments of c below the root
\* separated by '/', and contain(root, r) gives c again.
C11_RoundTripStable ==
    /\ Relativized =>
          /\ cpRelative.ok
          /\ ~cpRelative.val.abs
          /\ cpRelative.val.segs =
                IF cpResult.val = SafeRootPath THEN <<".">> ELSE BelowRoot(cpResult.val)
    /\ ContainedAgain => cpAgain = cpResult

----------------------------------------------------------------------------
(* Codec claims *)

Encoded == cdData.some /\ cdText # Pending
Decoded == cdDecoded # Pending

\* The 64 symbols, as a set
Alphabet == {BASE64_TABLE[i] : i \in 1..Len(BASE64_TABLE)}

\* 4 * ceil(n / 3)
EncodedLength(n) == 4 * ((n + 2) \div 3)

\* C12: decode(encode(x)) succeeds and equals x for every byte sequence x;
\* encode of the empty sequence is the empty string and encode of n > 0 bytes
\* is 4*ceil(n/3) characters of the alphabet, with '=' only in the last one
\* or two positions.
C12_DecodeInvertsEncode ==
    /\ Encoded =>
          LET x == cdData.val
              e == cdText.val
          IN /\ x = <<>> => e = <<>>
             /\ Len(e) = EncodedLength(Len(x))
             /\ \A i \in 1..Len(e) :
                   \/ e[i] \in Alphabet
                   \/ e[i] = "=" /\ i >= Len(e) - 1
    /\ (Encoded /\ Decoded) => cdDecoded = Ok(cdData.val)

\* C12 witness: four bytes were encoded to two groups, the last one padded
\* twice, and decoded back to the same four bytes
C12_Witness ==
    /\ Encoded
    /\ Decoded
    /\ Len(cdData.val) = 4
    /\ Len(cdText.val) = 8
    /\ cdText.val[7] = "="
    /\ cdText.val[8] = "="
    /\ cdText.val[6] # "="
    /\ cdDecoded = Ok(cdData.val)

\* The text with its whitespace removed, and its k-th group of four
Cleaned(text) == SelectSeq(text, LAMBDA ch : ch \notin {" ", "\n", "\t"})
Group(cleaned, k) == SubSeq(cleaned, 4 * k - 3, 4 * k)

\* How many '=' characters end a group
TrailingPads(group) ==
    Cardinality({n \in 1..Len(group) :
                    \A i \in (Len(group) - n + 1)..Len(group) : group[i] = "="})

RECURSIVE SumOver(_, _)
SumOver(f, k) == IF k = 0 THEN 0 ELSE f[k] + SumOver(f, k - 1)

\* C13: decode fails when the length without whitespace is not a multiple of
\* 4 or some character left is neither of the alphabet nor '='; when it
\* succeeds, each group of four contributes 3, 2 or 1 bytes for 0, 1 or 2
\* trailing '=' characters.
C13_DecodeByTrailingPadding ==
    Decoded =>
        LET cleaned == Cleaned(cdText.val)
            groups == Len(cleaned) \div 4
            pads == [k \in 1..groups |-> TrailingPads(Group(cleaned, k))]
        IN /\ Len(cleaned) % 4 # 0 => ~cdDecoded.ok
           /\ (\E i \in 1..Len(cleaned) : cleaned[i] \notin Alphabet \cup {"="})
                 => ~cdDecoded.ok
           /\ (cdDecoded.ok /\ \A k \in 1..groups : pads[k] <= 2)
                 => Len(cdDecoded.val) = SumOver([k \in 1..groups |-> 3 - pads[k]], groups)

----------------------------------------------------------------------------
(* Failing file writes *)

\* The write in progress is answered with one of the three refusals: the
\* path is out of orbit, the target exists and overwrite=false, or the
\* base64 content does not decode
WriteRefused ==
    /\ WriteStep
    /\ ~rpc'.result.ok
    /\ rpc'.result.err \in {OutOfOrbit, AlreadyExists, EncodingError}

IsProperPrefixOf(q, path) == IsPrefixOf(q, path) /\ q # path

\* C14 as stated: a writeFile call refused for one of these three reasons
\* leaves the file tree unchanged: no content is modified and no file or
\* directory is created.
C14_AsStated ==
    [][WriteRefused => tree' = tree]_vars

\* C14 amended: a refused writeFile call modifies no existing file or
\* directory and creates no file; it leaves the safe root in existence,
\* creating it (with its missing ancestors) when absent, and a call refused
\* because its base64 content does not decode also leaves the target's parent
\* directory in existence, creating the missing directories above the target.
\* Nothing else is created.
C14_Amended ==
    [][WriteRefused =>
        /\ \A q \in DOMAIN tree : q \in DOMAIN tree' /\ tree'[q] = tree[q]
        /\ exists(tree', SafeRootPath)
        /\ (rpc'.result.err = EncodingError /\ exists(tree, parent(WriteTarget.val))) =>
              exists(tree', parent(WriteTarget.val))
        /\ (rpc'.result.err = EncodingError /\ ~exists(tree, parent(WriteTarget.val))) =>
              is_dir(tree', parent(WriteTarget.val))
        /\ \A q \in DOMAIN tree' \ DOMAIN tree :
              /\ tree'[q] = Dir
              /\ \/ IsPrefixOf(q, SafeRootPath)
                 \/ /\ rpc'.result.err = EncodingError
                    /\ IsProperPrefixOf(q, WriteTarget.val)
    ]_vars

\* C14 witness: a write of undecodable base64 text to d/b.txt was refused,
\* and the directory d stands without the file
C14_Witness ==
    /\ Responded("write")
    /\ rpc.req.path = PathStr(FALSE, <<"d", "b.txt">>)
    /\ rpc.result = Err(EncodingError)
    /\ is_dir(tree, SafeRootPath \o <<"d">>)
    /\ ~exists(tree, SafeRootPath \o <<"d", "b.txt">>)
    /\ ~exists(tree, SafeRootPath \o <<"a.txt">>)

=============================================================================
